---- MODULE Spec2Model ----
(***************************************************************************)
(* A model of prody.ensemble.Ensemble (src/prody/ensemble/ensemble.py):    *)
(* the reference coordinates, the conformation stack, the atom selection,  *)
(* the weights, the two counters, and the operations that change or read   *)
(* them.                                                                   *)
(*                                                                         *)
(* Coordinates are integers on a grid (Grid grid units = 1 length unit).   *)
(* Every division the code performs on coordinates is exact on the arrays  *)
(* explored here; an operation whose result would leave the grid is not    *)
(* explored (its guard says so).  Arrays are 1-based sequences; Python's   *)
(* 0-based indices are kept as the code has them and shifted on access.    *)
(*                                                                         *)
(* The specifications share handlers: Spec explores the ensemble as a      *)
(* store, SpecPose superposition on four-atom ensembles (SpecPoseFair with *)
(* the loop of iterpose running on), SpecLife deletion together with       *)
(* superposition, SpecAtoms the selection, indexing and concatenation,     *)
(* SpecIter the generators, and SpecStat the statistics.                   *)
(***************************************************************************)
EXTENDS Integers, Sequences, FiniteSets, TLC

VARIABLES
    a,          \* the caller's own array, an (n,3) frame the caller keeps a handle on
    alias,      \* which of a, _coords, _confs are views of one buffer
    _coords,    \* self._coords: the reference frame, or None
    _confs,     \* self._confs: the stack of frames, or None
    _n_atoms,   \* self._n_atoms
    _n_csets,   \* self._n_csets
    _weights,   \* self._weights: one weight per atom (shape (n,1)), or None
    _atoms,     \* self._atoms: the stored Atomic, or None
    _indices,   \* self._indices: the selected atom indices (0-based), or None
    pc,         \* "idle", or "iterpose" inside the loop of iterpose, or the
                \* generator ("__iter__", "iterCoordsets") the caller holds
    it,         \* the locals of the call that is running or has just returned
    last,       \* the call that just returned, its argument and how it ended
                \* ("ok" or the exception class); NoCall once the caller has
                \* taken note of it
    ret         \* what that call returned

vars == <<a, alias, _coords, _confs, _n_atoms, _n_csets, _weights, _atoms,
          _indices, pc, it, last, ret>>

(***************************************************************************)
(* Bounds of the exploration.                                              *)
(***************************************************************************)
MaxConfs == 3       \* frames held at most
MaxPosed == 2       \* frames held at most where they are superposed
MaxIdxLen == 2      \* length of an index list given to delCoordset / getCoordsets

None == <<>>        \* Python's None (no array of the model is empty)

Grid == 12 * 12     \* grid units per length unit

(***************************************************************************)
(* Vectors, frames and 3x3 matrices.                                       *)
(***************************************************************************)
VAdd(u, v) == <<u[1] + v[1], u[2] + v[2], u[3] + v[3]>>
VSub(u, v) == <<u[1] - v[1], u[2] - v[2], u[3] - v[3]>>
VScale(k, v) == <<k * v[1], k * v[2], k * v[3]>>

Divides(d, n) == d > 0 /\ n % d = 0
VDivides(d, v) == Divides(d, v[1]) /\ Divides(d, v[2]) /\ Divides(d, v[3])
VDiv(v, d) == <<v[1] \div d, v[2] \div d, v[3] \div d>>

\* the sequence F(1), ..., F(n); the 3x3 matrix of the entries F(r, c)
RECURSIVE Tab(_, _)
Tab(F(_), n) == IF n = 0 THEN <<>> ELSE Append(Tab(F, n - 1), F(n))
Mat(F(_, _)) == << <<F(1, 1), F(1, 2), F(1, 3)>>,
                   <<F(2, 1), F(2, 2), F(2, 3)>>,
                   <<F(3, 1), F(3, 2), F(3, 3)>> >>

RECURSIVE VSum(_)
VSum(s) == IF s = <<>> THEN <<0, 0, 0>> ELSE VAdd(Head(s), VSum(Tail(s)))

RECURSIVE Sum(_)
Sum(s) == IF s = <<>> THEN 0 ELSE Head(s) + Sum(Tail(s))

\* numpy fancy indexing of the atom axis: frame[indices]
Take(frame, idx) == Tab(LAMBDA k : frame[idx[k] + 1], Len(idx))

\* row vector times matrix: dot(v, R)
VecMat(v, R) == <<v[1] * R[1][1] + v[2] * R[2][1] + v[3] * R[3][1],
                  v[1] * R[1][2] + v[2] * R[2][2] + v[3] * R[3][2],
                  v[1] * R[1][3] + v[2] * R[2][3] + v[3] * R[3][3]>>

MatMul(A, B) == Mat(LAMBDA r, c :
                    A[r][1] * B[1][c] + A[r][2] * B[2][c] + A[r][3] * B[3][c])

Transpose(A) == Mat(LAMBDA r, c : A[c][r])

Det3(A) == A[1][1] * (A[2][2] * A[3][3] - A[2][3] * A[3][2])
         - A[1][2] * (A[2][1] * A[3][3] - A[2][3] * A[3][1])
         + A[1][3] * (A[2][1] * A[3][2] - A[2][2] * A[3][1])

sign(x) == IF x > 0 THEN 1 ELSE IF x < 0 THEN -1 ELSE 0

Abs(x) == IF x < 0 THEN 0 - x ELSE x
RECURSIVE Gcd(_, _)
Gcd(x, y) == IF y = 0 THEN Abs(x) ELSE Gcd(y, Abs(x) % Abs(y))

\* A divided by the common divisor of its entries, a positive number
Reduced(A) ==
    LET g == Gcd(Gcd(Gcd(A[1][1], A[1][2]), Gcd(A[1][3], A[2][1])),
                 Gcd(Gcd(Gcd(A[2][2], A[2][3]), Gcd(A[3][1], A[3][2])), A[3][3]))
    IN IF g = 0 THEN A ELSE Mat(LAMBDA r, c : A[r][c] \div g)

(***************************************************************************)
(* The arrays the caller builds.  One molecule of four atoms (three of     *)
(* them in the plane z = 0) as X4, and as Y4 the same molecule stretched   *)
(* by two, turned by 90 degrees about z and shifted; the three-atom and    *)
(* two-atom arrays are its leading atoms.                                  *)
(***************************************************************************)
X4 == << <<0, 0, 0>>, <<Grid, 0, 0>>, <<0, Grid, 0>>, <<0, 0, Grid>> >>

Rz90(v) == <<0 - v[2], v[1], v[3]>>
Shift == <<5 * Grid, 5 * Grid, 0>>
Moved(f) == Tab(LAMBDA i : VAdd(Rz90(f[i]), Shift), Len(f))
Stretched(f) == Tab(LAMBDA i : VScale(2, f[i]), Len(f))

Y4 == Moved(Stretched(X4))
X3 == SubSeq(X4, 1, 3)
Y3 == SubSeq(Y4, 1, 3)
X2 == SubSeq(X4, 1, 2)

Frames == {X4, Y4, X3, Y3, X2}
Stacks == {<<Y4, X4>>, <<X3, Y3>>}

NoAlias == [ac |-> FALSE, af |-> FALSE, cf |-> FALSE]
NoCall == [op |-> "", arg |-> <<>>, exc |-> ""]
Idle == [rmsd |-> <<0, 1>>, rmsdif |-> <<0, 1>>, step |-> 0, length |-> 0,
         weights |-> None, rotations |-> <<>>]

numSelected == IF _indices = None THEN _n_atoms ELSE Len(_indices)
isSelected == _indices # None

Init ==
    /\ a = X4
    /\ alias = NoAlias
    /\ _coords = None
    /\ _confs = None
    /\ _n_atoms = 0
    /\ _n_csets = 0
    /\ _weights = None
    /\ _atoms = None
    /\ _indices = None
    /\ pc = "idle"
    /\ it = Idle
    /\ last = NoCall
    /\ ret = None

\* the caller makes its next call: the program is single-threaded and synchronous
Ready == pc = "idle" /\ last.op = ""

Done(op, arg, exc) == last' = [op |-> op, arg |-> arg, exc |-> exc]

\* the caller takes note of the outcome of the call and drops what it returned
Forget ==
    /\ pc = "idle"
    /\ last.op # ""
    /\ last' = NoCall
    /\ ret' = None
    /\ it' = Idle
    /\ UNCHANGED <<a, alias, _coords, _confs, _n_atoms, _n_csets, _weights,
                   _atoms, _indices, pc>>

\* a call that raises before it assigns anything
Raise(op, arg, exc) ==
    /\ Done(op, arg, exc)
    /\ ret' = None
    /\ UNCHANGED <<a, alias, _coords, _confs, _n_atoms, _n_csets, _weights,
                   _atoms, _indices, pc, it>>

(***************************************************************************)
(* checkCoords(coords, csets, natoms) of prody.utilities, for an ndarray   *)
(* of frames: the rank is 2 (or 2 or 3 with csets) and, when natoms is     *)
(* non-zero, every frame has natoms atoms.                                 *)
(***************************************************************************)
checkCoords(ndim, natomsOfArray, csets, natoms) ==
    IF (csets /\ ndim \notin {2, 3}) \/ (~csets /\ ndim # 2) THEN "ValueError"
    ELSE IF natoms # 0 /\ natomsOfArray # natoms THEN "ValueError"
    ELSE "ok"

\* setCoords without the check of the atom count
setCoordsUnchecked(frame, held) ==
    /\ _coords' = frame
    /\ _n_atoms' = Len(frame)
    /\ alias' = [ac |-> held, af |-> alias.af, cf |-> held /\ alias.af]
    /\ Done("setCoords", frame, "ok")
    /\ ret' = None
    /\ UNCHANGED <<a, _confs, _n_csets, _weights, _atoms, _indices, pc, it>>

(***************************************************************************)
(* setCoords(coords) with an ndarray: the caller's own array a (held) or   *)
(* a temporary.  The array is stored as it is, not copied.                 *)
(***************************************************************************)
setCoords(frame, held) ==
    LET chk == checkCoords(2, Len(frame), FALSE, _n_atoms) IN
    IF chk # "ok" THEN Raise("setCoords", frame, chk)
    ELSE /\ _coords' = frame
         /\ _n_atoms' = Len(frame)
         /\ alias' = [ac |-> held, af |-> alias.af, cf |-> held /\ alias.af]
         /\ Done("setCoords", frame, "ok")
         /\ ret' = None
         /\ UNCHANGED <<a, _confs, _n_csets, _weights, _atoms, _indices, pc, it>>

SetCoords ==
    /\ Ready
    /\ \/ setCoords(a, TRUE)
       \/ \E f \in Frames : setCoords(f, FALSE)

(***************************************************************************)
(* Atomic arguments of setAtoms (prody.atomic): an AtomGroup of n atoms,   *)
(* or a subset (a Selection, or an AtomMap, which alone has numDummies)    *)
(* of a parent group of ag atoms, with its indices into the parent.        *)
(***************************************************************************)
AtomGroup(n) == [n |-> n, idx |-> None, ag |-> n, dummies |-> "absent"]
Selection(idx, n) == [n |-> Len(idx), idx |-> idx, ag |-> n, dummies |-> "absent"]

AtomArgs == {AtomGroup(4), AtomGroup(3), Selection(<<0, 1, 2>>, 4),
             Selection(<<0, 2>>, 3)}

(***************************************************************************)
(* Other ensembles, as arguments of addCoordset and of +.  Each is a state *)
(* an Ensemble reaches through its own operations.                         *)
(***************************************************************************)
Ens(c, f, n, m, w, at, ix) ==
    [kind |-> "Ensemble", coords |-> c, confs |-> f, n_atoms |-> n, n_csets |-> m,
     weights |-> w, atoms |-> at, indices |-> ix]

\* an ndarray argument holding the frames of stack
Array(stack) == [kind |-> "ndarray", confs |-> stack]

Others ==
    { Ens(Y4, <<X4, Y4>>, 4, 2, <<2, 1, 1, 0>>, AtomGroup(4), <<0, 1, 2>>),
      Ens(None, <<Y4>>, 4, 1, None, None, None),
      Ens(Y4, None, 4, 0, None, None, None),
      Ens(X3, <<Y3>>, 3, 1, None, None, None) }

\* other.getCoordsets(indices=None, selected=False): a copy of the whole stack
getCoordsetsAll(e) == e.confs

\* the frame stored as it was given, of the size of the selection
ScatterSkipped(ref, idx, part) == part

\* Scatter into a frame of zeros in place of a copy of the reference
ScatterIntoZeros(ref, idx, part) ==
    Tab(LAMBDA i : IF \E k \in 1..Len(idx) : idx[k] + 1 = i
                   THEN part[CHOOSE k \in 1..Len(idx) : idx[k] + 1 = i]
                   ELSE <<0, 0, 0>>,
        Len(ref))

\* full_coords = repeat(self._coords[newaxis]); full_coords[:, indices, :] = coords
Scatter(ref, idx, part) ==
    Tab(LAMBDA i : IF \E k \in 1..Len(idx) : idx[k] + 1 = i
                   THEN part[CHOOSE k \in 1..Len(idx) : idx[k] + 1 = i]
                   ELSE ref[i],
        Len(ref))

(***************************************************************************)
(* addCoordset from the shape checks on (lines 361-389), for an array of   *)
(* rank ndim holding the frames of stack; held says the array is a.        *)
\* addArray counting one frame for each call, whatever the array holds
addArrayCountingCalls(stack, ndim, held, arg) ==
    LET n_atoms == _n_atoms
        n_select == numSelected
        n_nodes == Len(stack[1])
        n_confs == Len(stack)
        chk1 == checkCoords(ndim, n_nodes, TRUE, n_atoms)
        chk2 == checkCoords(ndim, n_nodes, TRUE, n_select)
        scatter == n_nodes = n_select /\ isSelected
        coords == IF scatter
                  THEN Tab(LAMBDA k : Scatter(_coords, _indices, stack[k]), n_confs)
                  ELSE stack
        view == held /\ ~scatter /\ _confs = None
    IN
    IF chk1 # "ok" /\ chk2 # "ok" THEN Raise("addCoordset", arg, chk2)
    ELSE IF scatter /\ _coords = None THEN Raise("addCoordset", arg, "TypeError")
    ELSE /\ Len(IF _confs = None THEN coords ELSE _confs \o coords) <= MaxConfs
         /\ _n_atoms' = IF n_atoms = 0 THEN n_nodes ELSE n_atoms
         /\ _confs' = IF _confs = None THEN coords ELSE _confs \o coords
         /\ _n_csets' = _n_csets + 1
         /\ alias' = [ac |-> alias.ac, af |-> view, cf |-> view /\ alias.ac]
         /\ Done("addCoordset", arg, "ok")
         /\ ret' = None
         /\ UNCHANGED <<a, _coords, _weights, _atoms, _indices, pc, it>>

(***************************************************************************)
addArray(stack, ndim, held, arg) ==
    LET n_atoms == _n_atoms
        n_select == numSelected
        n_nodes == Len(stack[1])
        n_confs == Len(stack)
        chk1 == checkCoords(ndim, n_nodes, TRUE, n_atoms)
        chk2 == checkCoords(ndim, n_nodes, TRUE, n_select)
        scatter == n_nodes = n_select /\ isSelected
        coords == IF scatter
                  THEN Tab(LAMBDA k : Scatter(_coords, _indices, stack[k]), n_confs)
                  ELSE stack
        view == held /\ ~scatter /\ _confs = None
    IN
    IF chk1 # "ok" /\ chk2 # "ok" THEN Raise("addCoordset", arg, chk2)
    ELSE IF scatter /\ _coords = None THEN Raise("addCoordset", arg, "TypeError")
    ELSE /\ Len(IF _confs = None THEN coords ELSE _confs \o coords) <= MaxConfs
         /\ _n_atoms' = IF n_atoms = 0 THEN n_nodes ELSE n_atoms
         /\ _confs' = IF _confs = None THEN coords ELSE _confs \o coords
         /\ _n_csets' = _n_csets + n_confs
         /\ alias' = [ac |-> alias.ac, af |-> view, cf |-> view /\ alias.ac]
         /\ Done("addCoordset", arg, "ok")
         /\ ret' = None
         /\ UNCHANGED <<a, _coords, _weights, _atoms, _indices, pc, it>>

(***************************************************************************)
(* addCoordset(coords) with another Ensemble (lines 337-359).              *)
(***************************************************************************)
addEnsemble(other) ==
    IF _coords # None
    THEN \* other._getCoordsets(selected=False): _getCoordsets takes no such keyword
         Raise("addCoordset", other, "TypeError")
    ELSE IF getCoordsetsAll(other) = None
         THEN Raise("addCoordset", other, "ValueError")
         ELSE addArray(getCoordsetsAll(other), 3, FALSE, other)

AddCoordset ==
    /\ Ready
    /\ \/ addArray(<<a>>, 2, TRUE, Array(<<a>>))
       \/ \E f \in Frames : addArray(<<f>>, 2, FALSE, Array(<<f>>))
       \/ \E s \in Stacks : addArray(s, 3, FALSE, Array(s))
       \/ \E other \in Others : addEnsemble(other)

(***************************************************************************)
(* delCoordset(index), index a scalar or a sequence (lines 450-467).       *)
(***************************************************************************)
\* Which without the wrap of a negative index
WhichOfPositive(length, index) ==
    [k \in 1..length |-> ~\E j \in 1..Len(index) : index[j] = k - 1]

\* which = ones(length, bool); which[index] = False
Which(length, index) ==
    [k \in 1..length |->
        ~\E j \in 1..Len(index) :
            (IF index[j] < 0 THEN index[j] + length ELSE index[j]) = k - 1]

\* array[which], which a boolean mask over the first axis
RECURSIVE Mask(_, _)
Mask(s, which) ==
    IF s = <<>> THEN <<>>
    ELSE (IF Head(which) THEN <<Head(s)>> ELSE <<>>) \o Mask(Tail(s), Tail(which))

delCoordset(index) ==
    LET length == _n_csets
        which == Which(length, index)
        inRange == \A j \in 1..Len(index) : 0 - length <= index[j] /\ index[j] < length
    IN
    IF length < 0 THEN Raise("delCoordset", index, "ValueError")
    ELSE IF ~inRange THEN Raise("delCoordset", index, "IndexError")
    ELSE IF \A k \in 1..length : ~which[k]
    THEN /\ _confs' = None
         /\ _weights' = None
         /\ _n_csets' = _n_csets - Len(index)
         /\ alias' = [ac |-> alias.ac, af |-> FALSE, cf |-> FALSE]
         /\ Done("delCoordset", index, "ok")
         /\ ret' = None
         /\ UNCHANGED <<a, _coords, _n_atoms, _atoms, _indices, pc, it>>
    ELSE IF _confs = None THEN Raise("delCoordset", index, "TypeError")
    ELSE IF Len(_confs) # length THEN Raise("delCoordset", index, "IndexError")
    ELSE /\ _confs' = Mask(_confs, which)
         /\ alias' = [ac |-> alias.ac, af |-> FALSE, cf |-> FALSE]
         /\ ret' = None
         /\ UNCHANGED <<a, _coords, _n_atoms, _atoms, _indices, pc, it>>
         /\ IF _weights = None
            THEN /\ _n_csets' = _n_csets - Len(index)
                 /\ Done("delCoordset", index, "ok")
                 /\ UNCHANGED _weights
            ELSE IF Len(_weights) # length
            THEN \* self._weights[which] raises after self._confs was replaced
                 /\ Done("delCoordset", index, "IndexError")
                 /\ UNCHANGED <<_weights, _n_csets>>
            ELSE /\ _weights' = Mask(_weights, which)
                 /\ _n_csets' = _n_csets - Len(index)
                 /\ Done("delCoordset", index, "ok")

IndexValues == (0 - MaxConfs)..MaxConfs
IndexLists == UNION {[1..n -> IndexValues] : n \in 2..MaxIdxLen}

DelCoordset ==
    /\ Ready
    /\ \/ \E i \in IndexValues : delCoordset(<<i>>)
       \/ \E index \in IndexLists : delCoordset(index)

\* the values of idx as a strictly increasing sequence
Increasing(idx) ==
    LET S == {idx[k] : k \in 1..Len(idx)} IN
    CHOOSE s \in [1..Cardinality(S) -> S] :
        \A i, j \in 1..Cardinality(S) : i < j => s[i] < s[j]

\* the indices of the subset in the order it holds them
sliceAtomsAsGiven(group, atoms) == atoms.idx

\* sliceAtoms(self._atoms, atoms)[0] (prody.atomic): the indices of atoms in
\* the stored group, a strictly increasing index array
sliceAtoms(group, atoms) == Increasing(atoms.idx)

(***************************************************************************)
(* setAtoms(atoms) (lines 191-247); atoms is None or an Atomic.            *)
(***************************************************************************)
setAtoms(atoms) ==
    LET n_atoms == _n_atoms
        store(at, ix, n) ==
            /\ _atoms' = at
            /\ _indices' = ix
            /\ _n_atoms' = n
            /\ Done("setAtoms", atoms, "ok")
            /\ ret' = None
            /\ UNCHANGED <<a, alias, _coords, _confs, _n_csets, _weights, pc, it>>
    IN
    IF atoms = None THEN store(None, None, _n_atoms)
    ELSE IF n_atoms # 0
    THEN IF atoms.n > n_atoms THEN Raise("setAtoms", atoms, "ValueError")
         ELSE IF atoms.dummies # "absent" /\ atoms.dummies # "0"
         THEN Raise("setAtoms", atoms, "ValueError")
         ELSE IF atoms.dummies = "0"
                 /\ \E k \in 1..(Len(atoms.idx) - 1) : atoms.idx[k] >= atoms.idx[k + 1]
         THEN Raise("setAtoms", atoms, "ValueError")
         ELSE IF atoms.n = n_atoms THEN store(atoms, None, n_atoms)
         ELSE IF _atoms = None /\ atoms.ag # n_atoms THEN Raise("setAtoms", atoms, "ValueError")
         ELSE store(IF _atoms = None THEN AtomGroup(atoms.ag) ELSE _atoms,
                    sliceAtoms(IF _atoms = None THEN AtomGroup(atoms.ag) ELSE _atoms,
                               atoms),
                    n_atoms)
    ELSE store(atoms, None, atoms.n)

SetAtoms ==
    /\ Ready
    /\ \/ setAtoms(None)
       \/ \E atoms \in AtomArgs : setAtoms(atoms)

(***************************************************************************)
(* checkWeights(weights, natoms, None) of prody.utilities for an ndarray:  *)
(* one non-negative weight per atom, returned with shape (natoms, 1).      *)
(***************************************************************************)
checkWeights(weights, natoms) ==
    IF Len(weights) # natoms \/ \E i \in 1..Len(weights) : weights[i] < 0
    THEN "ValueError" ELSE "ok"

\* self._weights[self._indices, :] = weights
ScatterWeights(full, idx, part) ==
    Tab(LAMBDA i : IF \E k \in 1..Len(idx) : idx[k] + 1 = i
                   THEN part[CHOOSE k \in 1..Len(idx) : idx[k] + 1 = i]
                   ELSE full[i],
        Len(full))

(***************************************************************************)
(* setWeights(weights) (lines 317-328).                                    *)
(***************************************************************************)
setWeights(weights) ==
    LET store(w) ==
            /\ _weights' = w
            /\ Done("setWeights", weights, "ok")
            /\ ret' = None
            /\ UNCHANGED <<a, alias, _coords, _confs, _n_atoms, _n_csets, _atoms,
                           _indices, pc, it>>
    IN
    IF _n_atoms = 0 THEN Raise("setWeights", weights, "AttributeError")
    ELSE IF checkWeights(weights, _n_atoms) = "ok" THEN store(weights)
    ELSE IF checkWeights(weights, numSelected) # "ok" THEN Raise("setWeights", weights, "ValueError")
    ELSE IF _weights # None /\ Len(_weights) > 1
    THEN \* `not self._weights`: the truth value of an array of several elements
         Raise("setWeights", weights, "ValueError")
    ELSE store(ScatterWeights(IF _weights = None \/ _weights = <<0>>
                              THEN Tab(LAMBDA i : 1, _n_atoms) ELSE _weights,
                              _indices, weights))

WeightArgs == {<<2, 1, 1, 0>>, <<4, 2, 2>>}

SetWeights ==
    /\ Ready
    /\ \E weights \in WeightArgs : setWeights(weights)

(***************************************************************************)
(* getCoordsets(indices, selected) (lines 391-426).  indices is None, an   *)
(* integer or a list of integers; what is returned is a fresh array, kept  *)
(* with its shape.                                                         *)
(***************************************************************************)
NoIndices == [form |-> "None", at |-> <<>>]
IntIndex(i) == [form |-> "int", at |-> <<i>>]
ListIndex(l) == [form |-> "list", at |-> l]

Result(shape, val) == [shape |-> shape, val |-> val]

\* numpy's reading of an index into an axis of length n
InRange(i, n) == 0 - n <= i /\ i < n
Pos(i, n) == IF i < 0 THEN i + n ELSE i

getCoordsets(indices, selected) ==
    LET arg == [indices |-> indices, selected |-> selected]
        n == Len(_confs)
        N == Len(_confs[1])
        at == indices.at
        L == Len(at)
        frameAt(i) == _confs[Pos(i, n) + 1]
        return(val) ==
            /\ ret' = val
            /\ Done("getCoordsets", arg, "ok")
            /\ UNCHANGED <<a, alias, _coords, _confs, _n_atoms, _n_csets, _weights,
                           _atoms, _indices, pc, it>>
        \* the IndexError of the indexing is caught and passed over; the next
        \* line reads coords, which was never bound
        unbound == Raise("getCoordsets", arg, "UnboundLocalError")
    IN
    IF _confs = None THEN return(None)
    ELSE IF _indices = None \/ ~selected
    THEN IF indices.form = "None" THEN return(Result(<<n, N, 3>>, _confs))
         ELSE IF \E k \in 1..L : ~InRange(at[k], n) THEN unbound
         ELSE IF indices.form = "int" THEN return(Result(<<N, 3>>, frameAt(at[1])))
         ELSE return(Result(<<L, N, 3>>, Tab(LAMBDA k : frameAt(at[k]), L)))
    ELSE LET selids == _indices
             S == Len(selids)
         IN
         IF indices.form = "None"
         THEN return(Result(<<n, S, 3>>, Tab(LAMBDA k : Take(_confs[k], selids), n)))
         ELSE IF \E k \in 1..L : ~InRange(at[k], n) THEN unbound
         ELSE IF indices.form = "int"
         THEN return(Result(<<S, 3>>, Take(frameAt(at[1]), selids)))
         \* self._confs[indices, selids] with two lists: the lists are broadcast
         \* against each other and paired, element k of one with element k of
         \* the other
         ELSE IF L = S
         THEN return(Result(<<S, 3>>, Tab(LAMBDA k : frameAt(at[k])[selids[k] + 1], S)))
         ELSE IF L = 1 THEN return(Result(<<S, 3>>, Take(frameAt(at[1]), selids)))
         ELSE IF S = 1
         THEN return(Result(<<L, 3>>, Tab(LAMBDA k : frameAt(at[k])[selids[1] + 1], L)))
         ELSE unbound

GetIndices ==
    {NoIndices} \cup {IntIndex(i) : i \in {0, -1, MaxConfs}}
                \cup {ListIndex(l) : l \in {<<0>>, <<1, 0>>, <<0, -1>>, <<0, MaxConfs>>}}

GetCoordsets ==
    /\ Ready
    /\ \E indices \in GetIndices, selected \in BOOLEAN : getCoordsets(indices, selected)

(***************************************************************************)
(* self + other (__add__, lines 107-139).  The new ensemble is built by    *)
(* setCoords, addCoordset, setWeights and setAtoms on a fresh Ensemble;    *)
(* it is what the call returns.                                            *)
(***************************************************************************)
add(other) ==
    LET coords == _coords                                      \* lines 119-120
        confsA == IF _confs # None THEN _confs ELSE <<>>        \* lines 121-122
        confsB == IF other.confs # None THEN other.confs ELSE <<>>
        confs == IF confsA \o confsB = <<>> THEN None ELSE confsA \o confsB
        n_atoms == IF coords # None THEN Len(coords)
                   ELSE IF confs # None THEN Len(confs[1]) ELSE 0
        weights == IF _weights # None THEN _weights ELSE other.weights
        atoms == IF _atoms # None THEN _atoms ELSE other.atoms
        indices == IF _atoms # None THEN _indices ELSE other.indices
    IN
    IF _n_atoms # other.n_atoms THEN Raise("__add__", other, "ValueError")
    ELSE IF weights # None /\ n_atoms = 0
    THEN \* ensemble.setWeights: the new ensemble has no atoms yet
         Raise("__add__", other, "AttributeError")
    ELSE /\ ret' = Ens(coords, confs,
                       IF n_atoms = 0 /\ atoms # None THEN atoms.n ELSE n_atoms,
                       Len(confsA) + Len(confsB), weights, atoms, indices)
         /\ Done("__add__", other, "ok")
         /\ UNCHANGED <<a, alias, _coords, _confs, _n_atoms, _n_csets, _weights,
                        _atoms, _indices, pc, it>>

Add ==
    /\ Ready
    /\ \E other \in Others : add(other)

(***************************************************************************)
(* The rotation solve of _superpose (lines 554-556):                       *)
(*     U, s, Vh = svd(matrix)                                              *)
(*     Id = diag(1, 1, sign(det(matrix)))                                  *)
(*     rotation = dot(Vh.T, dot(Id, U.T))                                  *)
(* With H = dot(matrix, rotation) = U diag(s) Id U.T, the rotation is      *)
(* told apart from every other matrix by what the factors make true:       *)
(*   det(matrix) > 0: rotation is orthogonal with determinant +1 and H     *)
(*                    is symmetric positive semidefinite;                  *)
(*   det(matrix) < 0: rotation is orthogonal with determinant +1, H is     *)
(*                    symmetric with eigenvalues s1, s2, -s3;              *)
(*   det(matrix) = 0: Id = diag(1, 1, 0), so rotation has rank two, H is   *)
(*                    symmetric positive semidefinite, and rotation's      *)
(*                    two projections fix matrix from the right and left.  *)
(* The solve is explored where exactly one matrix with entries in          *)
(* {-1, 0, 1} (an axis permutation with signs) meets these conditions:     *)
(* that matrix is then the one the code computes.                          *)
(***************************************************************************)
Perms3 == {<<1, 2, 3>>, <<1, 3, 2>>, <<2, 1, 3>>, <<2, 3, 1>>, <<3, 1, 2>>, <<3, 2, 1>>}
AxisMap(p, e) == Mat(LAMBDA r, c : IF p[r] = c THEN e[r] ELSE 0)
AxisMaps == {AxisMap(p, e) : p \in Perms3, e \in [1..3 -> {-1, 0, 1}]}
ZeroRows(R) == Cardinality({r \in 1..3 : \A c \in 1..3 : R[r][c] = 0})
\* orthogonal with determinant +1; of rank two
Proper == {R \in AxisMaps : ZeroRows(R) = 0 /\ Det3(R) = 1}
RankTwo == {R \in AxisMaps : ZeroRows(R) = 1}

Trace(H) == H[1][1] + H[2][2] + H[3][3]
IsSymmetric(H) == H[1][2] = H[2][1] /\ H[1][3] = H[3][1] /\ H[2][3] = H[3][2]
\* a symmetric matrix is positive semidefinite iff its principal minors are >= 0
IsPSD(H) ==
    /\ H[1][1] >= 0 /\ H[2][2] >= 0 /\ H[3][3] >= 0
    /\ H[1][1] * H[2][2] - H[1][2] * H[2][1] >= 0
    /\ H[1][1] * H[3][3] - H[1][3] * H[3][1] >= 0
    /\ H[2][2] * H[3][3] - H[2][3] * H[3][2] >= 0
    /\ Det3(H) >= 0
\* trace(H) * I - H: its eigenvalues are the pairwise sums of those of H
PairSums(H) == Mat(LAMBDA r, c : (IF r = c THEN Trace(H) ELSE 0) - H[r][c])

\* the last diagonal entry of Id
Id33(matrix) == sign(Det3(matrix))

rotationSet(matrix) ==
    LET d == Id33(matrix) IN
    IF d = 1
    THEN { R \in Proper : LET H == MatMul(matrix, R) IN IsSymmetric(H) /\ IsPSD(H) }
    ELSE IF d = -1
    THEN { R \in Proper : LET H == MatMul(matrix, R) IN
             IsSymmetric(H) /\ IsPSD(PairSums(H)) /\ Det3(H) < 0 }
    ELSE { R \in RankTwo : LET H == MatMul(matrix, R) IN
             /\ IsSymmetric(H)
             /\ IsPSD(H)
             /\ MatMul(matrix, MatMul(R, Transpose(R))) = matrix
             /\ MatMul(MatMul(Transpose(R), R), matrix) = matrix }

(***************************************************************************)
(* _superpose (lines 508-565).  w holds the weights used for centring      *)
(* (ones when self._weights is None, which makes the weighted mean the     *)
(* plain mean of lines 530 and 546).  matrix is kept up to a positive       *)
(* factor (weights_dot, and the common divisor of its entries), which      *)
(* changes neither its singular vectors nor the sign of its determinant.   *)
(***************************************************************************)
Ones(n) == Tab(LAMBDA i : 1, n)

WSum(frame, w) == VSum(Tab(LAMBDA i : VScale(w[i], frame[i]), Len(frame)))
comExact(frame, w) == Sum(w) > 0 /\ VDivides(Sum(w), WSum(frame, w))
com(frame, w) == VDiv(WSum(frame, w), Sum(w))
org(frame, c) == Tab(LAMBDA i : VSub(frame[i], c), Len(frame))

\* dot(tar_org.T, mob_org), or dot((tar_org * weights).T, mob_org * weights)
crossCov(tar_org, mob_org, weighted, w) ==
    Mat(LAMBDA r, c :
        Sum(Tab(LAMBDA i : (IF weighted THEN w[i] * w[i] ELSE 1)
                               * tar_org[i][r] * mob_org[i][c],
                Len(tar_org))))

sel(frame) == IF _indices = None THEN frame ELSE Take(frame, _indices)

\* weights as _superpose uses them: self._weights, restricted to the selection
superposeWeights ==
    IF _weights = None THEN Ones(numSelected)
    ELSE IF _indices = None THEN _weights ELSE Take(_weights, _indices)

\* the array operations of lines 520-539 raise when the weights do not fit
superposeRaises ==
    IF _weights = None THEN "ok"
    ELSE IF _indices # None /\ \E k \in 1..Len(_indices) : _indices[k] >= Len(_weights)
    THEN "IndexError"
    ELSE IF Len(superposeWeights) # Len(sel(_coords)) THEN "ValueError"
    ELSE "ok"

matrixOf(mob) ==
    LET w == superposeWeights
        tar == sel(_coords)
    IN Reduced(crossCov(org(tar, com(tar, w)), org(sel(mob), com(sel(mob), w)),
                        _weights # None, w))

\* the frame as _superpose leaves it (lines 558-563), given its rotation
superposedFrame(mob, rotation) ==
    LET w == superposeWeights
        tar_com == com(sel(_coords), w)
        mob_com == com(sel(mob), w)
    IN
    IF _indices = None
    THEN Tab(LAMBDA i : VAdd(VecMat(VSub(mob[i], mob_com), rotation), tar_com),
             Len(mob))
    ELSE Tab(LAMBDA i : VAdd(VecMat(mob[i], rotation),
                             VSub(tar_com, VecMat(mob_com, rotation))),
             Len(mob))

\* the rotation of line 556 for one frame; None when a quantity of the
\* superposition leaves the grid or the factors of the SVD are not determined
rotationOf(mob) ==
    LET rotations == IF comExact(sel(mob), superposeWeights)
                     THEN rotationSet(matrixOf(mob)) ELSE {}
    IN IF Cardinality(rotations) = 1 THEN CHOOSE R \in rotations : TRUE ELSE None

rotationsOf(mobs) == Tab(LAMBDA k : rotationOf(mobs[k]), Len(mobs))

\* the frames as the loop of lines 542-564 leaves them
superposedFrames(mobs, rotations) ==
    Tab(LAMBDA k : superposedFrame(mobs[k], rotations[k]), Len(mobs))

superposable(rotations) ==
    /\ comExact(sel(_coords), superposeWeights)
    /\ \A k \in 1..Len(rotations) : rotations[k] # None

(***************************************************************************)
(* superpose() (lines 496-506).  _superpose writes the frames in place:    *)
(* every view of the buffer sees them.                                     *)
(***************************************************************************)
\* superposeCheck with the exception type iterpose uses for missing
\* conformations
superposeCheckAsIterpose ==
    IF _coords = None THEN "ValueError"
    ELSE IF _confs = None \/ Len(_confs) = 0 THEN "AttributeError"
    ELSE "ok"

\* the checks of lines 499-502: the exception raised, or "ok"
superposeCheck ==
    IF _coords = None THEN "ValueError"
    ELSE IF _confs = None \/ Len(_confs) = 0 THEN "ValueError"
    ELSE "ok"

Superpose ==
    /\ Ready
    /\ IF superposeCheck # "ok" THEN Raise("superpose", None, superposeCheck)
       ELSE IF superposeRaises # "ok" THEN Raise("superpose", None, superposeRaises)
       ELSE LET rotations == rotationsOf(_confs)
                new == superposedFrames(_confs, rotations)
            IN
            /\ superposable(rotations)
            /\ _confs' = new
            /\ a' = IF alias.af THEN new[1] ELSE a
            /\ _coords' = IF alias.cf THEN new[1] ELSE _coords
            /\ it' = [Idle EXCEPT !.rotations = rotations]
            /\ Done("superpose", None, "ok")
            /\ ret' = None
            /\ UNCHANGED <<alias, _n_atoms, _n_csets, _weights, _atoms, _indices, pc>>

(***************************************************************************)
(* getRMSD(reference, target) of prody.measure without weights: the root   *)
(* of the mean over the atoms of the squared distance.  It is kept as its  *)
(* square, a fraction <<numerator, denominator>> in squared length units.  *)
(***************************************************************************)
SqNorm(v) == v[1] * v[1] + v[2] * v[2] + v[3] * v[3]
getRMSD(reference, target) ==
    <<Sum(Tab(LAMBDA i : SqNorm(VSub(reference[i], target[i])), Len(reference))),
      Len(reference) * Grid * Grid>>

\* rmsdif > rmsd, for the square sq of rmsdif and the fraction tol = rmsd
Exceeds(sq, tol) == sq[1] > (tol[1] * tol[1] * sq[2]) \div (tol[2] * tol[2])

\* self._confs.sum(0) / length
SumFrames(frames) ==
    Tab(LAMBDA i : VSum(Tab(LAMBDA k : frames[k][i], Len(frames))), Len(frames[1]))
meanExact(frames, length) ==
    \A i \in 1..Len(frames[1]) : VDivides(length, SumFrames(frames)[i])
mean(frames, length) ==
    Tab(LAMBDA i : VDiv(SumFrames(frames)[i], length), Len(frames[1]))

(***************************************************************************)
(* iterpose(rmsd) (lines 567-606): the checks and the locals set before    *)
(* the loop, one pass of the loop, and the return when the loop ends.      *)
(* self._weights always has two dimensions (checkWeights), so weightsum    *)
(* of line 592 is never bound.                                             *)
(***************************************************************************)
MaxSteps == 4       \* passes of the loop of iterpose explored

Tols == {<<1, 10000>>, <<1, 1>>, <<2, 1>>}      \* rmsd: 0.0001 (the default), 1, 2

\* the checks of lines 581-585: the exception raised, or "ok"
iterposeCheck ==
    IF _coords = None THEN "AttributeError"
    ELSE IF _confs = None \/ Len(_confs) = 0 THEN "AttributeError"
    ELSE "ok"

IterposeBegin ==
    /\ Ready
    /\ \E rmsd \in Tols :
        IF iterposeCheck # "ok" THEN Raise("iterpose", rmsd, iterposeCheck)
        ELSE /\ pc' = "iterpose"
             /\ it' = [rmsd |-> rmsd, rmsdif |-> <<1, 1>>, step |-> 0,
                       length |-> _n_csets, weights |-> _weights,
                       rotations |-> <<>>]
             /\ UNCHANGED <<a, alias, _coords, _confs, _n_atoms, _n_csets, _weights,
                            _atoms, _indices, last, ret>>

IterposeStep ==
    /\ pc = "iterpose"
    /\ Exceeds(it.rmsdif, it.rmsd)
    /\ it.step < MaxSteps
    /\ IF superposeRaises # "ok"
       THEN /\ pc' = "idle"
            /\ Done("iterpose", it.rmsd, superposeRaises)
            /\ UNCHANGED <<a, alias, _coords, _confs, _n_atoms, _n_csets, _weights,
                           _atoms, _indices, it, ret>>
       ELSE LET rotations == rotationsOf(_confs)
                new == superposedFrames(_confs, rotations)
                \* the reference as the write into the frames leaves it
                coords == IF alias.cf THEN new[1] ELSE _coords
                newxyz == mean(new, it.length)
            IN
            /\ superposable(rotations)
            /\ _confs' = new
            /\ a' = IF alias.af THEN new[1] ELSE a
            /\ IF it.weights = None
               THEN /\ meanExact(new, it.length)
                    /\ _coords' = newxyz
                    /\ alias' = [ac |-> FALSE, af |-> alias.af, cf |-> FALSE]
                    /\ it' = [it EXCEPT !.rmsdif = getRMSD(coords, newxyz),
                                        !.step = it.step + 1,
                                        !.rotations = rotations]
                    /\ UNCHANGED <<pc, last>>
               ELSE \* line 599 reads weightsum, which was never bound
                    /\ _coords' = coords
                    /\ it' = [it EXCEPT !.rotations = rotations]
                    /\ pc' = "idle"
                    /\ Done("iterpose", it.rmsd, "UnboundLocalError")
                    /\ UNCHANGED alias
            /\ UNCHANGED <<_n_atoms, _n_csets, _weights, _atoms, _indices, ret>>

IterposeEnd ==
    /\ pc = "iterpose"
    /\ ~Exceeds(it.rmsdif, it.rmsd)
    /\ pc' = "idle"
    /\ Done("iterpose", it.rmsd, "ok")
    /\ UNCHANGED <<a, alias, _coords, _confs, _n_atoms, _n_csets, _weights,
                   _atoms, _indices, it, ret>>

(***************************************************************************)
(* The caller writes into its own array, a[:] = Y4, while the array still  *)
(* holds X4.  setCoords (line 291) and addCoordset (lines 372, 386) stored *)
(* the array they were given, so the write shows in every view of that     *)
(* buffer.                                                                 *)
(***************************************************************************)
PoseFrames == {X4, Y4}

CallerWrite ==
    /\ Ready
    /\ a = X4
    /\ a' = Y4
    /\ _coords' = IF alias.ac THEN Y4 ELSE _coords
    /\ _confs' = IF alias.af THEN <<Y4>> ELSE _confs
    /\ Done("a[:] =", Y4, "ok")
    /\ UNCHANGED <<alias, _n_atoms, _n_csets, _weights, _atoms, _indices,
                   pc, it, ret>>

(***************************************************************************)
(* The calls that build the ensembles explored under superposition: the    *)
(* four-atom arrays, the selection of the three atoms in the plane and one *)
(* weight vector.                                                          *)
(***************************************************************************)
PoseSetCoords ==
    /\ Ready
    /\ \/ setCoords(a, TRUE)
       \/ \E f \in PoseFrames : setCoords(f, FALSE)

PoseAddCoordset ==
    /\ Ready
    /\ (_confs = None \/ Len(_confs) < MaxPosed)
    /\ \/ addArray(<<a>>, 2, TRUE, Array(<<a>>))
       \/ \E f \in PoseFrames : addArray(<<f>>, 2, FALSE, Array(<<f>>))

PoseSetAtoms ==
    /\ Ready
    /\ \/ setAtoms(None)
       \/ setAtoms(Selection(<<0, 1, 2>>, 4))

PoseSetWeights ==
    /\ Ready
    /\ setWeights(<<2, 1, 1, 0>>)

(***************************************************************************)
(* Spec: the ensemble as a store.  Every call that sets, adds, deletes,    *)
(* selects, weights, reads or concatenates, over all the arrays above.     *)
(***************************************************************************)
Next ==
    \/ SetCoords
    \/ AddCoordset
    \/ DelCoordset
    \/ SetAtoms
    \/ SetWeights
    \/ GetCoordsets
    \/ Add
    \/ Forget

Spec == Init /\ [][Next]_vars
(***************************************************************************)
(* SpecPose: superposition.  superpose, iterpose and the caller's write    *)
(* into its own array, on the ensembles the calls above build.             *)
(***************************************************************************)
NextPose ==
    \/ PoseSetCoords
    \/ PoseAddCoordset
    \/ PoseSetAtoms
    \/ PoseSetWeights
    \/ Superpose
    \/ IterposeBegin
    \/ IterposeStep
    \/ IterposeEnd
    \/ CallerWrite
    \/ Forget

SpecPose == Init /\ [][NextPose]_vars

\* the pass of the loop of iterpose from this state stays on the grid: the
\* centres, the rotations and the mean are exact
iterposeOnGrid ==
    superposeRaises = "ok"
    => LET rotations == rotationsOf(_confs)
           new == superposedFrames(_confs, rotations)
       IN /\ superposable(rotations)
          /\ it.weights = None => meanExact(new, it.length)

\* IterposeStep can be taken: its guard, with the pass on the grid
iterposeStepEnabled ==
    /\ pc = "iterpose"
    /\ Exceeds(it.rmsdif, it.rmsd)
    /\ it.step < MaxSteps
    /\ iterposeOnGrid

(***************************************************************************)
(* SpecPoseFair: SpecPose with the loop of iterpose running on.  iterpose  *)
(* is one synchronous call: once entered, the loop takes its next pass or  *)
(* returns without waiting for anything.  The weak fairness of             *)
(* IterposeStep is written out, with iterposeStepEnabled for its ENABLED.  *)
(***************************************************************************)
SpecPoseFair ==
    /\ Init /\ [][NextPose]_vars
    /\ WF_vars(IterposeEnd)
    /\ ([]<>~iterposeStepEnabled \/ []<><<IterposeStep>>_vars)

(***************************************************************************)
(* SpecLife: the life of an ensemble through all of its mutators, frames   *)
(* deleted and superposition together.  The arrays are the four-atom ones  *)
(* and one of three atoms; setAtoms is given whole groups.                 *)
(***************************************************************************)
LifeRefs == {X4, X3}

LifeConfs == {Y4, X3}

LifeSetCoords ==
    /\ Ready
    /\ \/ setCoords(a, TRUE)
       \/ \E f \in LifeRefs : setCoords(f, FALSE)

LifeAddCoordset ==
    /\ Ready
    /\ (_confs = None \/ Len(_confs) < MaxPosed)
    /\ \/ addArray(<<a>>, 2, TRUE, Array(<<a>>))
       \/ \E f \in LifeConfs : addArray(<<f>>, 2, FALSE, Array(<<f>>))

LifeDelCoordset ==
    /\ Ready
    /\ \E i \in {0, 1} : delCoordset(<<i>>)

LifeSetAtoms ==
    /\ Ready
    /\ \/ setAtoms(None)
       \/ \E atoms \in {AtomGroup(4), AtomGroup(3)} : setAtoms(atoms)

NextLife ==
    \/ LifeSetCoords
    \/ LifeAddCoordset
    \/ LifeDelCoordset
    \/ LifeSetAtoms
    \/ PoseSetWeights
    \/ Superpose
    \/ IterposeBegin
    \/ IterposeStep
    \/ IterposeEnd
    \/ Forget

SpecLife == Init /\ [][NextLife]_vars

(***************************************************************************)
(* self[index] (__getitem__, lines 65-105) and getConformation (lines      *)
(* 481-494).  An integer gives a Conformation, a handle on (self, index);  *)
(* a slice or a list gives a new Ensemble built by setCoords, addCoordset, *)
(* setWeights and setAtoms on a fresh Ensemble, its _indices then assigned.*)
(***************************************************************************)
SliceIndex(start, stop) == [form |-> "slice", at |-> <<start, stop>>]

Conformation(index) == [kind |-> "Conformation", index |-> index]

\* the checks of lines 484-494: the exception raised, or "ok"
getConformationCheck(index) ==
    IF _confs = None THEN "AttributeError"
    ELSE IF ~InRange(index, _n_csets) THEN "IndexError"
    ELSE "ok"

getConformation(index) == Conformation(Pos(index, _n_csets))

getitem(index) ==
    LET n == Len(_confs)
        at == index.at
        \* self._confs[index] for a slice start:stop and for a list
        sliced == SubSeq(_confs, at[1] + 1, IF at[2] < n THEN at[2] ELSE n)
        listed == Tab(LAMBDA k : _confs[Pos(at[k], n) + 1], Len(at))
        frames == IF index.form = "slice" THEN sliced ELSE listed
        return(val) ==
            /\ ret' = val
            /\ Done("__getitem__", index, "ok")
            /\ UNCHANGED <<a, alias, _coords, _confs, _n_atoms, _n_csets, _weights,
                           _atoms, _indices, pc, it>>
    IN
    IF _confs = None THEN return(None)
    ELSE IF index.form = "int"
    THEN IF getConformationCheck(at[1]) # "ok"
         THEN Raise("__getitem__", index, getConformationCheck(at[1]))
         ELSE return(getConformation(at[1]))
    \* ens.setCoords(copy(self._coords)) refuses None
    ELSE IF _coords = None THEN Raise("__getitem__", index, "ValueError")
    ELSE IF index.form = "list" /\ \E k \in 1..Len(at) : ~InRange(at[k], n)
    THEN Raise("__getitem__", index, "IndexError")
    \* ens.setAtoms(self._atoms) on the new ensemble, which has its atoms
    ELSE IF _atoms # None /\ _atoms.dummies \notin {"absent", "0"}
    THEN Raise("__getitem__", index, "ValueError")
    ELSE return(Ens(_coords, frames, _n_atoms, Len(frames), _weights, _atoms,
                    _indices))

ItemIndices ==
    {IntIndex(0), IntIndex(MaxPosed), SliceIndex(0, 1), SliceIndex(0, MaxPosed),
     ListIndex(<<0>>), ListIndex(<<1, 0>>)}

GetItem ==
    /\ Ready
    /\ \E index \in ItemIndices : getitem(index)

(***************************************************************************)
(* SpecAtoms: the atoms and the selection.  setAtoms with groups, with     *)
(* subsets that have no numDummies (their indices in order or not) and     *)
(* with atom maps, which have it; slicing, indexing and concatenation of   *)
(* the ensembles so selected.                                              *)
(***************************************************************************)
AtomMap(idx, n, dummies) == [n |-> Len(idx), idx |-> idx, ag |-> n, dummies |-> dummies]

SubsetArgs ==
    {Selection(<<0, 1, 2>>, 4), Selection(<<0, 2>>, 3), Selection(<<2, 0>>, 4),
     AtomMap(<<0, 2>>, 4, "0"), AtomMap(<<2, 0>>, 4, "0"), AtomMap(<<0, 1>>, 4, "1")}

AtomsFrames == {X4, X3}

AtomsSetCoords ==
    /\ Ready
    /\ \E f \in AtomsFrames : setCoords(f, FALSE)

AtomsAddCoordset ==
    /\ Ready
    /\ (_confs = None \/ Len(_confs) < MaxPosed)
    /\ \E f \in AtomsFrames : addArray(<<f>>, 2, FALSE, Array(<<f>>))

AtomsSetAtoms ==
    /\ Ready
    /\ \/ setAtoms(None)
       \/ \E n \in {3, 4} : setAtoms(AtomGroup(n))
       \/ \E atoms \in SubsetArgs : setAtoms(atoms)

NextAtoms ==
    \/ AtomsSetCoords
    \/ AtomsAddCoordset
    \/ AtomsSetAtoms
    \/ GetItem
    \/ Add
    \/ Forget

SpecAtoms == Init /\ [][NextAtoms]_vars

(***************************************************************************)
(* The generators: iter(self) (__iter__, lines 141-148) and                *)
(* iterCoordsets() (lines 469-479).  Calling either runs nothing of its    *)
(* body; each next() runs it up to the next yield.  Between two calls of   *)
(* next() the caller makes other calls.  it holds the frame of the         *)
(* generator: whether its body has started, the n_csets of line 143, the   *)
(* position of the loop, and for iterCoordsets the array and the indices   *)
(* the loop was entered with.                                              *)
(***************************************************************************)
Frame(started, n_csets, i, confs, indices) ==
    [started |-> started, n_csets |-> n_csets, i |-> i, confs |-> confs,
     indices |-> indices]

NotStarted == Frame(FALSE, 0, 0, None, None)

\* the generator has returned or raised: the caller holds none
finish(op, exc) ==
    /\ pc' = "idle"
    /\ it' = Idle
    /\ Done(op, None, exc)
    /\ ret' = None

\* the generator is suspended at a yield, the caller has the item
yield(op, item, frame) ==
    /\ it' = frame
    /\ Done(op, None, "ok")
    /\ ret' = item
    /\ UNCHANGED pc

IterBegin ==
    /\ pc = "idle"
    /\ pc' = "__iter__"
    /\ it' = NotStarted
    /\ last' = NoCall
    /\ ret' = None
    /\ UNCHANGED <<a, alias, _coords, _confs, _n_atoms, _n_csets, _weights,
                   _atoms, _indices>>

\* the loop without the comparison of line 145
iterCheckSkipped(n_csets) == "ok"

\* lines 145-147: the exception raised before the yield, or "ok"
iterCheck(n_csets) == IF n_csets # _n_csets THEN "RuntimeError" ELSE "ok"

IterNext ==
    /\ pc = "__iter__"
    /\ LET n_csets == IF it.started THEN it.n_csets ELSE _n_csets
           i == it.i
       IN IF i >= n_csets THEN finish("next(__iter__)", "StopIteration")
          ELSE IF iterCheck(n_csets) # "ok"
          THEN finish("next(__iter__)", iterCheck(n_csets))
          ELSE yield("next(__iter__)", Conformation(i),
                     Frame(TRUE, n_csets, i + 1, None, None))
    /\ UNCHANGED <<a, alias, _coords, _confs, _n_atoms, _n_csets, _weights,
                   _atoms, _indices>>

IterCoordsetsBegin ==
    /\ pc = "idle"
    /\ pc' = "iterCoordsets"
    /\ it' = NotStarted
    /\ last' = NoCall
    /\ ret' = None
    /\ UNCHANGED <<a, alias, _coords, _confs, _n_atoms, _n_csets, _weights,
                   _atoms, _indices>>

IterCoordsetsNext ==
    /\ pc = "iterCoordsets"
    /\ LET confs == IF it.started THEN it.confs ELSE _confs
           indices == IF it.started THEN it.indices ELSE _indices
           i == it.i
       IN \* for conf in self._confs, with self._confs None
          IF confs = None THEN finish("next(iterCoordsets)", "TypeError")
          ELSE IF i >= Len(confs) THEN finish("next(iterCoordsets)", "StopIteration")
          ELSE yield("next(iterCoordsets)",
                     Result(<<IF indices = None THEN Len(confs[i + 1])
                              ELSE Len(indices), 3>>,
                            IF indices = None THEN confs[i + 1]
                            ELSE Take(confs[i + 1], indices)),
                     Frame(TRUE, 0, i + 1, confs, indices))
    /\ UNCHANGED <<a, alias, _coords, _confs, _n_atoms, _n_csets, _weights,
                   _atoms, _indices>>

(***************************************************************************)
(* SpecIter: the generators, and the calls the caller makes while it holds *)
(* one: frames added and deleted, the selection set and cleared.           *)
(***************************************************************************)
IterFrames == {X4, Y4}

\* the caller is between two calls, holding a generator or not
Between == pc \in {"idle", "__iter__", "iterCoordsets"}

IterAddCoordset ==
    /\ Between
    /\ \E f \in IterFrames : addArray(<<f>>, 2, FALSE, Array(<<f>>))

IterDelCoordset ==
    /\ Between
    /\ \E index \in {<<0>>, <<-1>>, <<0, 0>>} : delCoordset(index)

IterSetAtoms ==
    /\ Between
    /\ \/ setAtoms(None)
       \/ setAtoms(Selection(<<0, 1, 2>>, 4))

NextIter ==
    \/ IterAddCoordset
    \/ IterDelCoordset
    \/ IterSetAtoms
    \/ IterBegin
    \/ IterNext
    \/ IterCoordsetsBegin
    \/ IterCoordsetsNext

SpecIter == Init /\ [][NextIter]_vars

(***************************************************************************)
(* The statistics (lines 608-676).  A mean square is kept as the fraction  *)
(* <<numerator, denominator>> in squared length units, as getRMSD keeps    *)
(* the square of an RMSD; a square root is kept as the root of its         *)
(* argument.                                                               *)
(***************************************************************************)
\* a call that returns val and assigns nothing
Return(op, arg, val) ==
    /\ ret' = val
    /\ Done(op, arg, "ok")
    /\ UNCHANGED <<a, alias, _coords, _confs, _n_atoms, _n_csets, _weights,
                   _atoms, _indices, pc, it>>

\* x ** 0.5
Sqrt(x) == [sqrt |-> x]

\* getDeviations() subtracting in place: self._confs -= self._coords
getDeviationsInPlace ==
    IF _confs = None \/ _coords = None THEN Return("getDeviations", None, None)
    ELSE LET dev == Tab(LAMBDA k : Tab(LAMBDA i : VSub(_confs[k][i], _coords[i]),
                                       Len(_coords)),
                        Len(_confs))
         IN /\ ret' = Result(<<Len(_confs), numSelected, 3>>,
                             Tab(LAMBDA k : sel(dev[k]), Len(_confs)))
            /\ _confs' = dev
            /\ Done("getDeviations", None, "ok")
            /\ UNCHANGED <<a, alias, _coords, _n_atoms, _n_csets, _weights,
                           _atoms, _indices, pc, it>>

\* getDeviations() of every atom: self._confs - self._coords
getDeviationsOfAllAtoms ==
    IF _confs = None \/ _coords = None THEN Return("getDeviations", None, None)
    ELSE Return("getDeviations", None,
                Result(<<Len(_confs), _n_atoms, 3>>,
                       Tab(LAMBDA k :
                               Tab(LAMBDA i : VSub(_confs[k][i], _coords[i]), _n_atoms),
                           Len(_confs))))

\* getDeviations() (lines 635-647)
getDeviations ==
    IF _confs = None THEN Return("getDeviations", None, None)
    ELSE IF _coords = None THEN Return("getDeviations", None, None)
    ELSE Return("getDeviations", None,
                Result(<<Len(_confs), numSelected, 3>>,
                       Tab(LAMBDA k :
                               Tab(LAMBDA i : VSub(sel(_confs[k])[i], sel(_coords)[i]),
                                   numSelected),
                           Len(_confs))))

\* getMSFs() (lines 608-626): what it returns.  With F frames and S the sum
\* of the frames, conf - mean is (F * conf - S) / F.
MSFs ==
    LET F == Len(_confs)
        S == sel(SumFrames(_confs))
        ssqf(i) == Sum(Tab(LAMBDA k : SqNorm(VSub(VScale(F, sel(_confs[k])[i]), S[i])),
                           F))
    IN Result(<<numSelected>>,
              Tab(LAMBDA i : <<ssqf(i), F * F * Grid * Grid * _n_csets>>, numSelected))

GetMSFs ==
    /\ Ready
    /\ IF _confs = None THEN Return("getMSFs", None, None)
       ELSE Return("getMSFs", None, MSFs)

\* getRMSFs() (lines 628-633): self.getMSFs() ** 0.5
GetRMSFs ==
    /\ Ready
    /\ IF _confs = None
       THEN \* None ** 0.5
            Raise("getRMSFs", None, "TypeError")
       ELSE Return("getRMSFs", None,
                   Result(MSFs.shape, Tab(LAMBDA i : Sqrt(MSFs.val[i]), numSelected)))

\* getRMSD(reference, target, weights) of prody.measure: the square of the
\* RMSD, weighted by the weights when there are any
getRMSDWeighted(reference, target, weights) ==
    IF weights = None THEN getRMSD(reference, target)
    ELSE <<Sum(Tab(LAMBDA i : weights[i] * SqNorm(VSub(reference[i], target[i])),
                   Len(reference))),
           Sum(weights) * Grid * Grid>>

\* getRMSDs(pairwise) (lines 649-676): the indices and weights it uses
rmsdIndices == IF _indices = None THEN Tab(LAMBDA i : i - 1, Len(_confs[1]))
               ELSE _indices

\* how the call ends when conformations and reference are set
RMSDsCheck(pairwise) ==
    IF _weights # None
       /\ \E k \in 1..Len(rmsdIndices) : rmsdIndices[k] >= Len(_weights)
    THEN \* self._weights[indices]
         "IndexError"
    ELSE IF pairwise /\ _n_csets < 0
    THEN \* zeros((n_confs, n_confs))
         "ValueError"
    ELSE IF pairwise /\ _n_csets > Len(_confs)
    THEN \* self._confs[j, indices]
         "IndexError"
    ELSE "ok"

\* what it returns then
RMSDs(pairwise) ==
    LET at(k) == Take(_confs[k], rmsdIndices)
        rmsdWeights == IF _weights = None THEN None ELSE Take(_weights, rmsdIndices)
    IN IF pairwise
       THEN Result(<<_n_csets, _n_csets>>,
                   Tab(LAMBDA i :
                           Tab(LAMBDA j : getRMSDWeighted(at(i), at(j), rmsdWeights),
                               _n_csets),
                       _n_csets))
       ELSE Result(<<Len(_confs)>>,
                   Tab(LAMBDA k : getRMSDWeighted(Take(_coords, rmsdIndices), at(k),
                                                  rmsdWeights),
                       Len(_confs)))

getRMSDs(pairwise) ==
    IF _confs = None \/ _coords = None THEN Return("getRMSDs", pairwise, None)
    ELSE IF RMSDsCheck(pairwise) # "ok"
    THEN Raise("getRMSDs", pairwise, RMSDsCheck(pairwise))
    ELSE Return("getRMSDs", pairwise, RMSDs(pairwise))

GetDeviations == Ready /\ getDeviations

GetRMSDs == Ready /\ \E pairwise \in BOOLEAN : getRMSDs(pairwise)

(***************************************************************************)
(* SpecStat: the statistics on ensembles of three atoms, with and without  *)
(* a selection and weights, frames added and deleted.                      *)
(***************************************************************************)
StatSetCoords ==
    /\ Ready
    /\ \E f \in {X3, Y3} : setCoords(f, FALSE)

StatAddCoordset ==
    /\ Ready
    /\ \E f \in {X3, Y3} : addArray(<<f>>, 2, FALSE, Array(<<f>>))

StatDelCoordset ==
    /\ Ready
    /\ \E index \in {<<0>>, <<0, 0>>} : delCoordset(index)

StatSetAtoms ==
    /\ Ready
    /\ \/ setAtoms(None)
       \/ setAtoms(Selection(<<0, 2>>, 3))

StatSetWeights ==
    /\ Ready
    /\ setWeights(<<4, 2, 2>>)

NextStat ==
    \/ StatSetCoords
    \/ StatAddCoordset
    \/ StatDelCoordset
    \/ StatSetAtoms
    \/ StatSetWeights
    \/ GetDeviations
    \/ GetMSFs
    \/ GetRMSFs
    \/ GetRMSDs
    \/ Forget

SpecStat == Init /\ [][NextStat]_vars

(***************************************************************************)
(* What the accessors show of the state.                                   *)
(***************************************************************************)
numConfs == _n_csets
framesHeld == IF _confs = None THEN 0 ELSE Len(_confs)

\* getCoords(): the reference restricted to the selection (lines 249-256)
getCoords == IF _coords = None THEN None ELSE sel(_coords)

\* the frames getCoordsets(indices, selected=True) is asked for, each
\* restricted to the selected atoms, with the shape of the request
requested(indices) ==
    LET n == Len(_confs)
        S == Len(_indices)
        at == indices.at
        frameAt(i) == Take(_confs[Pos(i, n) + 1], _indices)
    IN IF indices.form = "None"
       THEN Result(<<n, S, 3>>, Tab(LAMBDA k : Take(_confs[k], _indices), n))
       ELSE IF indices.form = "int" THEN Result(<<S, 3>>, frameAt(at[1]))
       ELSE Result(<<Len(at), S, 3>>, Tab(LAMBDA k : frameAt(at[k]), Len(at)))

allInRange(indices) ==
    \A k \in 1..Len(indices.at) : InRange(indices.at[k], Len(_confs))

(***************************************************************************)
(* The properties checked.                                                 *)
(***************************************************************************)

\* C1: after every sequence of addCoordset and delCoordset calls, with
\* delCoordset given a scalar or any sequence of in-range indices (one that
\* names a frame twice included), numConfs() is the number of frames held
\* in the conformation stack, 0 when the stack is None.
C1_NumConfsIsFramesHeld == numConfs = framesHeld

\* a delCoordset that named frame 0 twice has returned: one frame is left,
\* numConfs() is 0
C1_DuplicateIndexMiscount ==
    /\ last.op = "delCoordset" /\ last.exc = "ok"
    /\ last.arg = <<0, 0>>
    /\ framesHeld = 1 /\ numConfs = 0

\* C2: addCoordset(other) with another Ensemble that holds frames succeeds,
\* numConfs() grows by other.numConfs() and other's full frames are appended,
\* whether or not the receiving ensemble has its reference set.
C2_AbsorbsEnsemble ==
    [][(/\ last'.op = "addCoordset"
        /\ last'.arg.kind = "Ensemble"
        /\ last'.arg.confs # None)
       => /\ last'.exc = "ok"
          /\ _n_csets' = _n_csets + last'.arg.n_csets
          /\ _confs' = (IF _confs = None THEN <<>> ELSE _confs) \o last'.arg.confs
      ]_vars

\* addCoordset(other) has raised TypeError on an ensemble whose reference is set
C2_ReferenceSetTypeError ==
    /\ last.op = "addCoordset" /\ last.arg.kind = "Ensemble"
    /\ last.arg.confs # None
    /\ _coords # None
    /\ last.exc = "TypeError"

\* C3: superpose() leaves the reference coordinates as they were, in every
\* reachable state, the one where one array was given to both setCoords and
\* addCoordset included.
C3_ReferenceUntouched ==
    [][last'.op = "superpose" => _coords' = _coords]_vars

\* superpose() has returned on an ensemble whose reference and only frame are
\* one buffer, and the reference no longer holds what setCoords was given
C3_SharedBufferSuperposed ==
    /\ last.op = "superpose" /\ last.exc = "ok"
    /\ alias.cf /\ alias.ac
    /\ _coords = _confs[1] /\ _coords = a
    /\ _coords \notin PoseFrames

\* C4: the ensemble owns its arrays: a write of the caller into its array a
\* changes neither what getCoords() returns nor the conformations, and
\* superpose() and iterpose() leave a as it was.
C4_ExclusiveOwnership ==
    [][/\ last'.op = "a[:] =" => (getCoords' = getCoords /\ _confs' = _confs)
       /\ (last'.op = "superpose" \/ pc = "iterpose") => a' = a
      ]_vars

\* the caller has written into the array it gave to setCoords, and getCoords()
\* returns what was written
C4_WriteShowsInReference ==
    /\ last.op = "a[:] =" /\ alias.ac
    /\ _coords = Y4 /\ getCoords = sel(a)

\* C5: with a selection active, getCoordsets(indices, selected=True) returns
\* for indices None, an integer or a list of several in-range integers
\* exactly the requested frames restricted to the selected atoms, of shape
\* (requested frames, numSelected(), 3).
C5_SelectedCoordsets ==
    (/\ last.op = "getCoordsets"
     /\ last.arg.selected
     /\ _confs # None /\ _indices # None
     /\ last.arg.indices.form = "list" => Len(last.arg.indices.at) > 1
     /\ allInRange(last.arg.indices))
    => /\ last.exc = "ok"
       /\ ret.shape = requested(last.arg.indices).shape
       /\ ret.val = requested(last.arg.indices).val

\* getCoordsets([1, 0]) with two atoms selected has returned two atoms, not
\* two frames of two atoms
C5_ListIndexPaired ==
    /\ last.op = "getCoordsets" /\ last.exc = "ok" /\ _confs # None
    /\ last.arg.selected /\ last.arg.indices = ListIndex(<<1, 0>>)
    /\ _indices = <<0, 2>>
    /\ ret.shape = <<2, 3>>
    /\ ret.val = <<_confs[2][1], _confs[1][3]>>

\* C6: getCoordsets with an out-of-range frame index on an ensemble that
\* holds conformations raises IndexError, with or without a selection, and
\* leaves the ensemble unchanged.
C6_OutOfRangeIsIndexError ==
    [][(/\ last'.op = "getCoordsets"
        /\ _confs # None
        /\ ~allInRange(last'.arg.indices))
       => /\ last'.exc = "IndexError"
          /\ UNCHANGED <<_coords, _confs, _n_atoms, _n_csets, _weights, _atoms,
                         _indices>>
      ]_vars

\* getCoordsets with an out-of-range index has raised UnboundLocalError
C6_OutOfRangeUnbound ==
    /\ last.op = "getCoordsets" /\ _confs # None
    /\ ~allInRange(last.arg.indices)
    /\ last.exc = "UnboundLocalError"

\* C7: when iterpose(rmsd = tol) returns normally on an ensemble without
\* weights, for every tol (tol >= 1 included), the conformations were
\* superposed at least once and the reference is the mean of the stack.
C7_IterposeLeavesMean ==
    (last.op = "iterpose" /\ last.exc = "ok" /\ _weights = None)
    => /\ it.step >= 1
       /\ meanExact(_confs, Len(_confs))
       /\ _coords = mean(_confs, Len(_confs))

\* iterpose(rmsd = 1) has returned without a pass of its loop, and the
\* reference is not the mean of the conformations
C7_NoPassAtToleranceOne ==
    /\ last.op = "iterpose" /\ last.exc = "ok" /\ _weights = None
    /\ last.arg = <<1, 1>>
    /\ it.step = 0
    /\ ~(meanExact(_confs, Len(_confs)) /\ _coords = mean(_confs, Len(_confs)))

\* C8: with weights set (one weight per atom, shape (N, 1)) every pass of
\* iterpose completes: an iterpose that has entered its loop does not raise.
C8_WeightedIterposeCompletes ==
    (last.op = "iterpose" /\ it.weights # None) => last.exc = "ok"

\* iterpose on an ensemble with weights has raised UnboundLocalError after
\* superposing the frames
C8_WeightsumUnbound ==
    /\ last.op = "iterpose" /\ it.weights # None
    /\ last.exc = "UnboundLocalError"
    /\ Len(it.rotations) = Len(_confs)

\* C9: the rotation computed for each conformation in superpose is proper,
\* det(R) = +1, with and without weights, for coplanar atoms (for which
\* det(matrix) = 0) as for the others.
C9_RotationIsProper ==
    \A k \in 1..Len(it.rotations) : Det3(it.rotations[k]) = 1

\* superpose() has returned having used a matrix of determinant 0 as rotation
C9_CoplanarRotationSingular ==
    /\ last.op = "superpose" /\ last.exc = "ok"
    /\ \E k \in 1..Len(it.rotations) : Det3(it.rotations[k]) = 0

\* C10: A + B for ensembles of equal atom counts returns an ensemble whose
\* conformations are A's followed by B's, numConfs() the sum, and whose
\* reference, weights and selection are A's where A has them and B's where
\* A lacks them.
C10_Concatenation ==
    (last.op = "__add__" /\ _n_atoms = last.arg.n_atoms)
    => /\ last.exc = "ok"
       /\ ret.n_csets = numConfs + last.arg.n_csets
       /\ ret.confs = (IF _confs = None THEN <<>> ELSE _confs)
                          \o (IF last.arg.confs = None THEN <<>> ELSE last.arg.confs)
       /\ ret.coords = (IF _coords # None THEN _coords ELSE last.arg.coords)
       /\ ret.weights = (IF _weights # None THEN _weights ELSE last.arg.weights)
       /\ ret.indices = (IF _indices # None THEN _indices ELSE last.arg.indices)

\* A + B has returned an ensemble without reference although B has one
C10_ReferenceOfRightOperandLost ==
    /\ last.op = "__add__" /\ last.exc = "ok"
    /\ _coords = None /\ last.arg.coords # None
    /\ ret.coords = None

\* C11: setWeights with one non-negative weight per selected atom, a
\* selection being active, stores N weights of which the selected atoms
\* have the given ones, whether or not weights were set before.
C11_SelectionWeightsScattered ==
    [][(/\ last'.op = "setWeights"
        /\ _indices # None
        /\ checkWeights(last'.arg, Len(_indices)) = "ok")
       => /\ last'.exc = "ok"
          /\ Len(_weights') = _n_atoms
          /\ \A k \in 1..Len(_indices) : _weights'[_indices[k] + 1] = last'.arg[k]
      ]_vars

\* setWeights with selection-sized weights has raised ValueError on an
\* ensemble that already has weights
C11_SecondScatterRaises ==
    /\ last.op = "setWeights" /\ last.exc = "ValueError"
    /\ _indices # None /\ _weights # None
    /\ checkWeights(last.arg, Len(_indices)) = "ok"

\* C12: iterpose called with the reference unset or with no conformations
\* raises the exception class superpose raises in that state, and changes
\* nothing.
C12_IterposeFailsAsSuperpose ==
    [][(last'.op = "iterpose" /\ superposeCheck # "ok")
       => /\ last'.exc = superposeCheck
          /\ UNCHANGED <<a, _coords, _confs, _n_atoms, _n_csets, _weights, _atoms,
                         _indices>>
      ]_vars

\* iterpose has raised AttributeError in a state where superpose raises
\* ValueError
C12_AttributeErrorNotValueError ==
    /\ last.op = "iterpose" /\ last.exc = "AttributeError"
    /\ superposeCheck = "ValueError"

\* C13: superpose() raises its precondition error (ValueError) when the
\* reference is unset, when no conformations were added and when all of
\* them were deleted, and then leaves reference, conformations, weights,
\* selection, numAtoms() and numConfs() as they were.
C13_SuperposePrecondition ==
    [][(last'.op = "superpose" /\ (_coords = None \/ _confs = None))
       => /\ last'.exc = "ValueError"
          /\ UNCHANGED <<_coords, _confs, _weights, _atoms, _indices, _n_atoms,
                         _n_csets>>
      ]_vars

\* superpose() has raised ValueError on an ensemble with a reference whose
\* conformations were all deleted
C13_RaisedAfterDeletingAll ==
    /\ last.op = "superpose" /\ last.exc = "ValueError"
    /\ _coords # None /\ _confs = None
    /\ _n_atoms # 0 /\ _n_csets = 0

\* C14: with a selection active and a reference set, addCoordset of an array
\* of frames of numSelected() atoms succeeds and appends, for each, a frame
\* of N atoms holding the added values at the selected positions and the
\* reference values at the others; getCoordsets(selected=False) then returns
\* the stored full frames and getCoordsets(selected=True) the values at the
\* selected positions, which are the added values.
C14_SelectionRoundTrip ==
    [][/\ (/\ last'.op = "addCoordset" /\ last'.arg.kind = "ndarray"
           /\ _indices # None /\ _coords # None
           /\ Len(last'.arg.confs[1]) = numSelected)
          => /\ last'.exc = "ok"
             /\ Len(_confs') = framesHeld + Len(last'.arg.confs)
             /\ \A k \in 1..Len(last'.arg.confs) :
                  LET stored == _confs'[framesHeld + k]
                      added == last'.arg.confs[k]
                  IN /\ Len(stored) = _n_atoms
                     /\ \A j \in 1..Len(_indices) : stored[_indices[j] + 1] = added[j]
                     /\ \A i \in 1.._n_atoms :
                          (\A j \in 1..Len(_indices) : _indices[j] + 1 # i)
                          => stored[i] = _coords[i]
       /\ (/\ last'.op = "getCoordsets" /\ last'.arg.indices.form = "None"
           /\ _indices # None /\ _confs # None)
          => /\ last'.exc = "ok"
             /\ IF last'.arg.selected
                THEN /\ ret'.shape = <<Len(_confs), Len(_indices), 3>>
                     /\ \A k \in 1..Len(_confs) : \A j \in 1..Len(_indices) :
                          ret'.val[k][j] = _confs[k][_indices[j] + 1]
                ELSE /\ ret'.shape = <<Len(_confs), _n_atoms, 3>>
                     /\ ret'.val = _confs
      ]_vars

\* the three atoms of Y3 were added under the selection 0, 1, 2 of four atoms
\* with the reference X4, and getCoordsets() has read them back
C14_AddedFrameReadBack ==
    /\ last.op = "getCoordsets" /\ last.exc = "ok"
    /\ last.arg.indices.form = "None" /\ last.arg.selected
    /\ _indices = <<0, 1, 2>> /\ _coords = X4 /\ _confs # None
    /\ _confs[Len(_confs)] = Y3 \o <<X4[4]>>
    /\ ret.val[Len(_confs)] = Y3

C16_DeletingAllClears ==
    [][(/\ last'.op = "delCoordset"
        /\ _confs # None /\ _n_csets = Len(_confs)
        /\ \A j \in 1..Len(last'.arg) : InRange(last'.arg[j], _n_csets)
        /\ \A k \in 1.._n_csets :
             \E j \in 1..Len(last'.arg) : Pos(last'.arg[j], _n_csets) + 1 = k)
       => /\ last'.exc = "ok"
          /\ _confs' = None
          /\ _weights' = None
          /\ _n_csets' = 0
          /\ UNCHANGED <<_coords, _n_atoms, _atoms, _indices>>
      ]_vars

\* the only frame was deleted by an index list naming it twice: the stack
\* is cleared and numConfs() is negative
C16_ClearedWithNegativeCount ==
    /\ last.op = "delCoordset" /\ last.exc = "ok"
    /\ Len(last.arg) = 2
    /\ Pos(last.arg[1], 1) = 0 /\ Pos(last.arg[2], 1) = 0
    /\ _confs = None /\ _weights = None
    /\ _n_csets = 0 - 1

\* C17: once numAtoms() is not zero, no step of setCoords, addCoordset,
\* delCoordset, setAtoms, setWeights, superpose or iterpose changes it, and
\* a setCoords with another atom count is rejected and leaves the reference
\* as it was.
C17_NumAtomsFixed ==
    [][_n_atoms # 0
       => /\ _n_atoms' = _n_atoms
          /\ (last'.op = "setCoords" /\ Len(last'.arg) # _n_atoms)
             => last'.exc # "ok" /\ UNCHANGED _coords
      ]_vars

\* a reference of three atoms was refused by an ensemble of four atoms that
\* holds conformations
C17_OtherCountRefused ==
    /\ last.op = "setCoords" /\ last.exc = "ValueError"
    /\ Len(last.arg) = 3
    /\ _n_atoms = 4 /\ _coords # None /\ _confs # None

\* C18: in every reachable state the reference, when set, has shape (N, 3)
\* and the conformation stack, when set, is a stack of at least one frame,
\* each of shape (N, 3), whatever the selection; a stack of one frame, after
\* an addition or a deletion, is still a stack.
C18_FullAtomStorage ==
    /\ _coords # None
       => /\ Len(_coords) = _n_atoms
          /\ \A i \in 1..Len(_coords) : Len(_coords[i]) = 3
    /\ _confs # None
       => /\ Len(_confs) >= 1
          /\ \A k \in 1..Len(_confs) :
               /\ Len(_confs[k]) = _n_atoms
               /\ \A i \in 1..Len(_confs[k]) : Len(_confs[k][i]) = 3

\* under a selection of some of the atoms a deletion has left one frame, and
\* it lies in a stack of one frame of N atoms
C18_OneFrameLeftUnderSelection ==
    /\ last.op = "delCoordset" /\ last.exc = "ok"
    /\ _indices # None /\ Len(_indices) < _n_atoms
    /\ _coords # None /\ _confs # None
    /\ Len(_confs) = 1 /\ Len(_confs[1]) = _n_atoms

\* C19: a successful addCoordset of k frames (k = 1 for a 2-D array) raises
\* numConfs() by k and appends the frames after those held, in the order
\* given (under a selection, frames of the selected atoms at the selected
\* positions); the frames held before, the reference, the weights and the
\* selection are unchanged.
C19_AppendsInOrder ==
    [][(last'.op = "addCoordset" /\ last'.exc = "ok")
       => LET new == last'.arg.confs
              k == Len(new)
          IN /\ _n_csets' = _n_csets + k
             /\ Len(_confs') = framesHeld + k
             /\ \A j \in 1..framesHeld : _confs'[j] = _confs[j]
             /\ \A j \in 1..k :
                  IF Len(new[j]) = _n_atoms'
                  THEN _confs'[framesHeld + j] = new[j]
                  ELSE Take(_confs'[framesHeld + j], _indices) = new[j]
             /\ UNCHANGED <<_coords, _weights, _atoms, _indices>>
      ]_vars

\* a 3-D array of two frames was added to an ensemble holding one frame
C19_TwoFramesAfterOne ==
    /\ last.op = "addCoordset" /\ last.exc = "ok"
    /\ last.arg.kind = "ndarray" /\ Len(last.arg.confs) = 2
    /\ _confs # None /\ Len(_confs) = 3 /\ _n_csets = 3
    /\ SubSeq(_confs, 2, 3) = last.arg.confs

\* C20: on an ensemble of N # 0 atoms, addCoordset of coordinates whose atom
\* count is neither N nor numSelected() raises ValueError; and an addCoordset
\* that raises leaves the conformations, numConfs(), numAtoms(), the
\* reference, the weights and the selection as they were.
C20_IncompatibleCountIsValueError ==
    [][last'.op = "addCoordset"
       => /\ (/\ _n_atoms # 0
              /\ last'.arg.confs # None
              /\ Len(last'.arg.confs[1]) \notin {_n_atoms, numSelected})
             => last'.exc = "ValueError"
          /\ last'.exc # "ok"
             => UNCHANGED <<_confs, _n_csets, _n_atoms, _coords, _weights, _atoms,
                            _indices>>
      ]_vars

\* an ensemble holding frames of three atoms was given to an ensemble of
\* four atoms with a reference: the call raised TypeError
C20_OtherCountIsTypeError ==
    /\ last.op = "addCoordset" /\ last.exc = "TypeError"
    /\ last.arg.kind = "Ensemble" /\ last.arg.confs # None
    /\ Len(last.arg.confs[1]) = 3
    /\ _n_atoms = 4 /\ _indices = None /\ _coords # None

\* a selection of an ensemble of n atoms: absent, or strictly increasing
\* indices within [0, n)
selectionOk(indices, n) ==
    \/ indices = None
    \/ /\ \A k \in 1..Len(indices) : 0 <= indices[k] /\ indices[k] < n
       /\ \A k \in 1..(Len(indices) - 1) : indices[k] < indices[k + 1]

C22_BadSubsetRejected ==
    [][(/\ last'.op = "setAtoms" /\ last'.arg # None
        /\ _n_atoms # 0 /\ last'.arg.n < _n_atoms
        /\ \/ last'.arg.ag # _n_atoms
           \/ \E k \in 1..(Len(last'.arg.idx) - 1) :
                last'.arg.idx[k] >= last'.arg.idx[k + 1]
           \/ last'.arg.dummies \notin {"absent", "0"})
       => /\ last'.exc # "ok"
          /\ UNCHANGED <<_atoms, _indices>>
      ]_vars

\* a subset without a dummy count, of a group of N atoms, holding its
\* indices as 2, 0, was accepted and a selection stored
C22_UnorderedSubsetAccepted ==
    /\ last.op = "setAtoms" /\ last.exc = "ok"
    /\ last.arg # None /\ last.arg.dummies = "absent"
    /\ last.arg.idx = <<2, 0>> /\ last.arg.ag = _n_atoms
    /\ _indices # None

C24_IterCoordsetsYieldsEachFrame ==
    [][(/\ last'.op = "next(iterCoordsets)"
        /\ it.started => (it.confs = _confs /\ it.indices = _indices))
       => /\ last'.exc = (IF it.i < _n_csets THEN "ok" ELSE "StopIteration")
          /\ last'.exc = "ok"
             => ret'.val = (IF _indices = None THEN _confs[it.i + 1]
                            ELSE Take(_confs[it.i + 1], _indices))
      ]_vars

\* the first step of iterCoordsets() on an ensemble that holds no
\* conformations has raised TypeError
C24_NoConformationsTypeError ==
    /\ last.op = "next(iterCoordsets)" /\ last.exc = "TypeError"
    /\ _confs = None /\ _n_csets = 0

\* C25: getDeviations, getMSFs, getRMSFs and getRMSDs (pairwise or not)
\* never mutate the ensemble: a step that is one of these calls, whether it
\* returns or raises, leaves the reference, the conformations, the weights,
\* the selection, the atoms, N and M as they were.
C25_StatisticsDoNotMutate ==
    [][(/\ last.op = ""
        /\ last'.op \in {"getDeviations", "getMSFs", "getRMSFs", "getRMSDs"})
       => UNCHANGED <<_coords, _confs, _weights, _indices, _atoms, _n_atoms,
                      _n_csets>>
      ]_vars

\* getDeviations() has returned the deviations of two frames that differ
\* from the reference, under a selection and with weights set
C25_DeviationsOfMovedFrames ==
    /\ last.op = "getDeviations" /\ last.exc = "ok"
    /\ ret # None
    /\ _indices # None /\ _weights # None
    /\ Len(_confs) = 2
    /\ \A k \in 1..2 : _confs[k] # _coords

\* C26: when conformations and reference are set, getRMSDs(pairwise=True)
\* returns a matrix with one row and one column per stored conformation
\* that is symmetric with zero diagonal, getRMSDs(pairwise=False) returns
\* one entry per stored conformation, and entry i of the latter equals
\* entry (i, r) of the former whenever the reference equals stored
\* conformation r.
C26_PairwiseMatrixAndVector ==
    [][(last.op = "" /\ last'.op = "getRMSDs" /\ _confs # None /\ _coords # None)
       => /\ last'.exc = "ok"
          /\ RMSDsCheck(TRUE) = "ok"
          /\ LET M == Len(_confs)
                 P == RMSDs(TRUE)
             IN /\ P.shape = <<M, M>>
                /\ \A i, j \in 1..M : P.val[i][j] = P.val[j][i]
                /\ \A i \in 1..M : P.val[i][i][1] = 0
                /\ last'.arg => ret' = P
                /\ ~last'.arg
                   => /\ ret'.shape = <<M>>
                      /\ \A r \in 1..M :
                             _coords = _confs[r]
                             => \A i \in 1..M : ret'.val[i] = P.val[i][r]
      ]_vars

\* getRMSDs(pairwise=True) has returned a matrix of one row and one column
\* on an ensemble that holds two conformations
C26_OneRowForTwoConformations ==
    /\ last.op = "getRMSDs" /\ last.exc = "ok"
    /\ last.arg
    /\ ret # None
    /\ ret.shape = <<1, 1>>
    /\ Len(_confs) = 2

\* C27: getDeviations() never raises; it returns None when the
\* conformations or the reference coordinates are unset, and otherwise an
\* array of one frame per conformation and one row per selected atom in
\* which row p of frame k, added to the reference position of the p-th
\* selected atom, gives that atom's position in conformation k.
C27_DeviationsOrNone ==
    [][(last.op = "" /\ last'.op = "getDeviations")
       => /\ last'.exc = "ok"
          /\ (_confs = None \/ _coords = None) => ret' = None
          /\ (_confs # None /\ _coords # None)
             => /\ ret' # None
                /\ ret'.shape = <<Len(_confs), numSelected, 3>>
                /\ \A k \in 1..Len(_confs) : \A p \in 1..numSelected :
                       VAdd(ret'.val[k][p], _coords[rmsdIndices[p] + 1])
                           = _confs[k][rmsdIndices[p] + 1]
      ]_vars

\* getDeviations() has returned None on an ensemble that holds
\* conformations and no reference coordinates
C27_NoneWithoutReference ==
    /\ last.op = "getDeviations" /\ last.exc = "ok"
    /\ ret = None
    /\ _confs # None /\ _coords = None

\* C30: getRMSFs() never raises; on an ensemble with no conformations it
\* returns None, and when conformations are held it returns one entry per
\* selected atom, each the square root of that atom's entry of getMSFs().
C30_RMSFsOrNone ==
    [][(last.op = "" /\ last'.op = "getRMSFs")
       => /\ last'.exc = "ok"
          /\ _confs = None => ret' = None
          /\ _confs # None
             => /\ ret' # None
                /\ ret'.shape = <<numSelected>>
                /\ \A p \in 1..numSelected : ret'.val[p] = Sqrt(MSFs.val[p])
      ]_vars

\* getRMSFs() has raised TypeError on an ensemble that holds no
\* conformations
C30_NoConformationsTypeError ==
    /\ last.op = "getRMSFs" /\ last.exc = "TypeError"
    /\ _confs = None /\ _n_csets = 0

\* C29: a delCoordset that removes some but not all frames of an ensemble
\* carrying one weight per atom completes without error, removes the
\* frames, decrements numConfs() and leaves the weights as they were.
C29_PerAtomWeightsSurviveDeletion ==
    [][(/\ last.op = "" /\ last'.op = "delCoordset"
        /\ _confs # None /\ _n_csets = Len(_confs)
        /\ _weights # None /\ Len(_weights) = _n_atoms
        /\ \A j \in 1..Len(last'.arg) :
               0 - _n_csets <= last'.arg[j] /\ last'.arg[j] < _n_csets
        /\ \E k \in 1.._n_csets : Which(_n_csets, last'.arg)[k]
        /\ \E k \in 1.._n_csets : ~Which(_n_csets, last'.arg)[k])
       => /\ last'.exc = "ok"
          /\ _weights' = _weights
          /\ Len(_confs') < Len(_confs)
          /\ _n_csets' < _n_csets
      ]_vars

\* delCoordset has raised IndexError on an ensemble with one weight per
\* atom, after the frame was removed and before numConfs() was decremented
C29_FrameRemovedCountKept ==
    /\ last.op = "delCoordset" /\ last.exc = "IndexError"
    /\ _weights # None /\ Len(_weights) = _n_atoms
    /\ _confs # None /\ Len(_confs) < _n_csets

\* C28: iterpose terminates.  Every call ends by returning with an RMSD
\* difference <= the tolerance, unless its next pass leaves the grid; the loop
\* stops at the first such step, a further pass being taken only while the
\* difference exceeds the tolerance; and when all conformations are
\* identical the difference is within the tolerance after two passes.
C28_IterposeTerminates ==
    /\ (pc = "iterpose")
       ~> \/ /\ pc = "idle"
             /\ last.op = "iterpose" /\ last.exc = "ok"
             /\ ~Exceeds(it.rmsdif, it.rmsd)
          \/ /\ pc = "iterpose"
             /\ Exceeds(it.rmsdif, it.rmsd)
             /\ ~iterposeOnGrid
    /\ [][(pc = "iterpose" /\ ~Exceeds(it.rmsdif, it.rmsd))
          => /\ pc' = "idle" /\ last'.exc = "ok"
             /\ UNCHANGED <<_coords, _confs, it>>
         ]_vars
    /\ [][(pc = "iterpose" /\ pc' = "iterpose") => it'.step = it.step + 1]_vars
    /\ []((/\ pc = "iterpose" /\ it.step >= 2
           /\ \A k \in 1..Len(_confs) : _confs[k] = _confs[1])
          => ~Exceeds(it.rmsdif, it.rmsd))

\* iterpose has ended in its first pass by raising, on a weighted ensemble,
\* with the RMSD difference still above the tolerance
C28_EndedInFirstPass ==
    /\ pc = "idle"
    /\ last.op = "iterpose" /\ last.exc = "UnboundLocalError"
    /\ _weights # None
    /\ it.step = 0 /\ Exceeds(it.rmsdif, it.rmsd)
====
